---- MODULE Spec2Model ----
(***************************************************************************)
(* The horn generator (src/vite.config.js, lines 27-838: the application   *)
(* script): kernel initialisation, the profile generator, the generate     *)
(* action with its kernel and fallback paths, and the export action.       *)
(***************************************************************************)
EXTENDS Integers, Sequences, FiniteSets, TLC

(***************************************************************************)
(* NUMBERS.  A JavaScript number is modelled as a binary fixed-point       *)
(* number: the integer v stands for v / Scale.  Every arithmetic           *)
(* operation rounds its exact result to the nearest representable value,   *)
(* as IEEE-754 arithmetic does; the precision is 20 fractional            *)
(* bits instead of the 53 significant bits of a double.  All intermediate  *)
(* products are split so that they stay below 2^31.                        *)
(***************************************************************************)
Half == 2 ^ 10
Scale == Half * Half

Abs(a) == IF a < 0 THEN -a ELSE a
Sgn(a) == IF a < 0 THEN -1 ELSE 1

\* the number n (an integer literal of the source)
Num(n) == n * Scale

\* a * b for a, b >= 0, rounded to nearest
MulAbs(a, b) ==
    LET ah == a \div Half
        al == a % Half
        bh == b \div Half
        bl == b % Half
    IN  ah * bh + (ah * bl + al * bh + ((al * bl + Scale \div 2) \div Half)) \div Half

\* the operator *
Mul(a, b) == Sgn(a) * Sgn(b) * MulAbs(Abs(a), Abs(b))

RECURSIVE DivBits(_, _, _, _)
DivBits(r, b, n, q) ==
    IF n = 0
    THEN IF 2 * r >= b THEN q + 1 ELSE q
    ELSE IF 2 * r >= b
         THEN DivBits(2 * r - b, b, n - 1, 2 * q + 1)
         ELSE DivBits(2 * r, b, n - 1, 2 * q)

\* a / b for a >= 0, b > 0, rounded to nearest (binary long division)
DivAbs(a, b) == DivBits(a % b, b, 20, a \div b)

\* the operator / (b # 0)
Div(a, b) == Sgn(a) * Sgn(b) * DivAbs(Abs(a), Abs(b))

Max(a, b) == IF a >= b THEN a ELSE b
Min(a, b) == IF a <= b THEN a ELSE b

RECURSIVE AtanhSeries(_, _, _, _)
\* sum of p/k + p*u2/(k+2) + ... until the term vanishes
AtanhSeries(p, u2, k, sum) ==
    IF p = 0
    THEN sum
    ELSE AtanhSeries(MulAbs(p, u2), u2, k + 2, sum + (2 * p + k) \div (2 * k))

\* ln(y) for 1 <= y < 2:  2 * atanh((y - 1) / (y + 1))
LogReduced(y) ==
    LET u == DivAbs(y - Scale, y + Scale)
    IN  2 * AtanhSeries(u, MulAbs(u, u), 1, 0)

\* ln 2 = 2 * atanh(1/3)
Ln2 ==
    LET u == DivAbs(Num(1), Num(3))
    IN  2 * AtanhSeries(u, MulAbs(u, u), 1, 0)

RECURSIVE LogAbove(_)
\* ln(a) for a >= 1
LogAbove(a) ==
    IF a >= 2 * Scale
    THEN Ln2 + LogAbove((a + 1) \div 2)
    ELSE LogReduced(a)

\* Math.log(a) for a > 0; Math.log(1) = 0 exactly
MathLog(a) ==
    IF a >= Scale THEN LogAbove(a) ELSE -LogAbove(DivAbs(Num(1), a))

RECURSIVE ExpSeries(_, _, _, _)
\* 1 + r + r^2/2! + ... until the term vanishes
ExpSeries(term, r, j, sum) ==
    IF term = 0
    THEN sum
    ELSE ExpSeries((2 * MulAbs(term, r) + j) \div (2 * j), r, j + 1, sum + term)

\* e^z for z >= 0:  2^k * e^r with z = k * ln 2 + r
ExpAbove(z) ==
    (2 ^ (z \div Ln2)) * ExpSeries(Scale, z % Ln2, 1, 0)

\* Math.exp(z); Math.exp(0) = 1 exactly
MathExp(z) ==
    IF z >= 0 THEN ExpAbove(z) ELSE DivAbs(Num(1), ExpAbove(-z))

RECURSIVE SqrtSearch(_, _, _)
\* the largest y in lo..hi with y * y <= a
SqrtSearch(lo, hi, a) ==
    IF lo >= hi
    THEN lo
    ELSE LET mid == (lo + hi + 1) \div 2
         IN  IF MulAbs(mid, mid) <= a
             THEN SqrtSearch(mid, hi, a)
             ELSE SqrtSearch(lo, mid - 1, a)

\* Math.sqrt(a) for a >= 0; Math.sqrt(1) = 1 exactly
MathSqrt(a) == SqrtSearch(0, Max(a, Scale), a)

\* Math.pow(b, e) for b > 0; Math.pow(1, e) = 1 exactly
MathPow(b, e) == MathExp(Mul(e, MathLog(b)))

\* Math.PI
MathPI == 3294199

\* a / n for an integer n > 0, rounded to nearest
DivInt(a, n) == Sgn(a) * ((2 * Abs(a) + n) \div (2 * n))

RECURSIVE TrigSeries(_, _, _, _)
\* term - term*z2/(j(j+1)) + term*z2^2/(j(j+1)(j+2)(j+3)) - ... until the
\* term vanishes
TrigSeries(term, z2, j, sum) ==
    IF term = 0
    THEN sum
    ELSE TrigSeries(-DivInt(Mul(term, z2), j * (j + 1)), z2, j + 2, sum + term)

\* the angle z, 0 <= z <= 2 pi, brought into [-pi, pi]
ReduceAngle(z) == IF z > MathPI THEN z - 2 * MathPI ELSE z

\* Math.cos(z)
MathCos(z) ==
    LET w == ReduceAngle(z)
    IN  TrigSeries(Scale, Mul(w, w), 1, 0)

\* Math.sin(z)
MathSin(z) ==
    LET w == ReduceAngle(z)
    IN  TrigSeries(w, Mul(w, w), 2, 0)

(***************************************************************************)
(* PROFILE GENERATOR (calculateHornProfile).  A sample is a record         *)
(* [x |-> axial position, r |-> radius]; the result is the sequence of     *)
(* samples pushed to `points`, in order.                                   *)
(***************************************************************************)
\* const smoothingFactor = 0.3
smoothingFactor == Div(Num(3), Num(10))

\* the body of the exponential loop for index i
ExponentialPoint(throatRadius, mouthRadius, length, segments, i) ==
    LET flareConstant == Div(MathLog(Div(mouthRadius, throatRadius)), length)
        px == Mul(Div(Num(i), Num(segments)), length)
        r == Mul(throatRadius, MathExp(Mul(flareConstant, px)))
    IN  [x |-> px, r |-> r]

\* the body of the tractrix loop for index i
TractrixPoint(throatRadius, mouthRadius, length, segments, i) ==
    LET expansionRatio == Div(mouthRadius, throatRadius)
        px == Mul(Div(Num(i), Num(segments)), length)
        t == Div(px, length)
        baseR == Mul(throatRadius, MathExp(Mul(t, MathLog(expansionRatio))))
        q == Div(px, Mul(length, smoothingFactor))
        tractrixModifier == MathSqrt(Num(1) + Mul(q, q))
        adjustedR == Div(baseR, MathPow(tractrixModifier, smoothingFactor))
        r == Max(throatRadius, Min(mouthRadius, adjustedR))
    IN  [x |-> px, r |-> r]

RECURSIVE ExponentialLoop(_, _, _, _, _, _)
\* for (let i = 0; i <= segments; i++) { ...; points.push({ x, r }); }
ExponentialLoop(points, i, throatRadius, mouthRadius, length, segments) ==
    IF i > segments
    THEN points
    ELSE ExponentialLoop(
            Append(points,
                   ExponentialPoint(throatRadius, mouthRadius, length, segments, i)),
            i + 1, throatRadius, mouthRadius, length, segments)

RECURSIVE TractrixLoop(_, _, _, _, _, _)
\* for (let i = 0; i <= segments; i++) { ...; points.push({ x, r }); }
TractrixLoop(points, i, throatRadius, mouthRadius, length, segments) ==
    IF i > segments
    THEN points
    ELSE TractrixLoop(
            Append(points,
                   TractrixPoint(throatRadius, mouthRadius, length, segments, i)),
            i + 1, throatRadius, mouthRadius, length, segments)

\* a calculateHornProfile for which every type but 'tractrix' is exponential
calculateHornProfileDefaulting(type, throatRadius, mouthRadius, length, segments) ==
    IF type = "tractrix"
    THEN TractrixLoop(<< >>, 0, throatRadius, mouthRadius, length, segments)
    ELSE ExponentialLoop(<< >>, 0, throatRadius, mouthRadius, length, segments)

\* calculateHornProfile: the array `points` it returns
calculateHornProfile(type, throatRadius, mouthRadius, length, segments) ==
    IF type = "exponential"
    THEN ExponentialLoop(<< >>, 0, throatRadius, mouthRadius, length, segments)
    ELSE IF type = "tractrix"
    THEN TractrixLoop(<< >>, 0, throatRadius, mouthRadius, length, segments)
    ELSE << >>

(***************************************************************************)
(* STATE.                                                                  *)
(*  libraryDefined   typeof opencascadeWasm !== 'undefined'                *)
(*  initPc           where init() stands: "start" (DOMContentLoaded not    *)
(*                   yet fired), "polling" (awaiting a retry timer),       *)
(*                   "initializing" (awaiting opencascadeWasm()), "ready"  *)
(*                   (init returned), "failed" (init's catch block ran)    *)
(*  retries          the iterations of init's polling loop made so far     *)
(*  loadingText      what the #loading element shows                       *)
(*  oc               FALSE for null, TRUE for the kernel module            *)
(*  listening        setupEventListeners has run (and, before it,          *)
(*                   initThreeJS: the scene exists)                        *)
(*  hornTypeInput .. segmentsInput   the values of the input elements      *)
(*                   hornType, throatDiameter, mouthDiameter, hornLength,  *)
(*                   segments                                              *)
(*  targetFrequencyInput   the value of the input element targetFrequency  *)
(*  genCount         the number of generateHorn calls so far; the n-th     *)
(*                   call produces horn n                                  *)
(*  profilePoints    the array calculateHornProfile returned when it was   *)
(*                   last applied on its own (ProfileSpec)                 *)
(*  infoPanel        the horn whose metrics the info panel shows (0: none) *)
(*  currentShape     the horn whose kernel shape it holds (0: null)        *)
(*  hornMeshes       the scene's objects named 'horn', in scene order      *)
(*  downloadEnabled  the download button is not disabled                   *)
(*  exported         what the last downloadSTL call did                    *)
(*  lastEvent        the last handler that ran, the alert it showed, the   *)
(*                   number of samples it calculated (-1: none) and which  *)
(*                   builders it called with what result                   *)
(*  hornGeometry     the vertex and index arrays a mesh builder produced   *)
(*                   when it was last applied on its own                   *)
(*  stlString        the lines of the text downloadSTLThreeJS built when   *)
(*                   it was last applied on its own                        *)
(*  autoCalculateLength  the checkbox of that name is checked              *)
(*  hornLengthDisabled   the input element hornLength is disabled          *)
(*  explorerFace     the face the mesh extractor visited last              *)
(*  wireEdges        the edges createHornShape added to the wire when it   *)
(*                   was last applied on its own, in the order of the Add  *)
(*                   calls                                                 *)
(***************************************************************************)
VARIABLES libraryDefined, initPc, retries, loadingText, oc, listening,
          hornTypeInput, throatDiameterInput, mouthDiameterInput, hornLengthInput, segmentsInput,
          targetFrequencyInput,
          genCount, profilePoints, infoPanel, currentShape, hornMeshes,
          downloadEnabled, exported, lastEvent, hornGeometry, stlString,
          autoCalculateLength, hornLengthDisabled, explorerFace, wireEdges

controls == <<hornTypeInput, throatDiameterInput, mouthDiameterInput, hornLengthInput, segmentsInput,
              targetFrequencyInput, autoCalculateLength, hornLengthDisabled>>
startup == <<libraryDefined, initPc, retries, loadingText, oc, listening>>
horn == <<genCount, infoPanel, currentShape, hornMeshes, downloadEnabled>>
builders == <<explorerFace, wireEdges>>
vars == <<startup, controls, horn, exported, lastEvent, profilePoints, hornGeometry, stlString,
         builders>>

MAX_OPENCASCADE_LOAD_RETRIES == 50

\* the most generate actions a behaviour performs
MaxGenerations == 3

\* the values the input controls take
HornTypes == {"exponential", "tractrix"}
ThroatDiameters == {20, 60}
MouthDiameters == {60}
HornLengths == {100}
SegmentCounts == {1, 2}
TargetFrequencies == {471, 942}

\* the values calculateHornProfile is applied to on its own
MaxSegments == 4
AllHornTypes == HornTypes
AllThroatDiameters == ThroatDiameters \cup {10, 42}
AllMouthDiameters == MouthDiameters
AllHornLengths == HornLengths \cup {50, 200}
AllSegmentCounts == SegmentCounts \cup (2..MaxSegments)

\* what a kernel stage of createHornShape (the wire, the face, the
\* revolution) answers when it is called: IsDone() holds, IsDone() does
\* not hold, or the stage throws
StageAnswers == {"done", "notDone", "throws"}
\* the answers of the three stages.  Those of the stages after the first
\* that is not done are what the stage would answer if it were called; one
\* value is enumerated for them.
KernelResults ==
    { kernel \in StageAnswers \X StageAnswers \X StageAnswers :
        /\ kernel[1] # "done" => (kernel[2] = "done" /\ kernel[3] = "done")
        /\ kernel[2] # "done" => kernel[3] = "done" }
\* the outcomes of the try block of a render function: it completes, or it
\* throws before or after scene.add(mesh)
RenderResults == {"ok", "failBeforeAdd", "failAfterAdd"}

NoEvent(handler) ==
    [handler |-> handler, alert |-> "none", samples |-> -1,
     solidBuilder |-> "notCalled", kernelStages |-> << >>,
     meshExtractor |-> "notCalled", fallbackBuilder |-> "notCalled"]

NoExport ==
    [route |-> "none", horn |-> 0, result |-> "none", fellBack |-> FALSE,
     delivered |-> FALSE]

\* the outcomes of the try block of an export function: it completes, or
\* it throws while the STL is written (or serialised), while it is read
\* back, in the delivery (up to a.click()), or in the clean-up after it
KernelExportResults == {"ok", "write", "read", "deliver", "cleanup"}
TextExportResults == {"ok", "write", "deliver", "cleanup"}

\* what the kernel reports for a face without a triangulation
NoFace == [isNull |-> TRUE, nodes |-> << >>, triangles |-> << >>, reversed |-> FALSE]

\* const vertices = []; const indices = []
\* (and the number of faces the mesh extractor has visited)
NoGeometry == [vertices |-> << >>, indices |-> << >>, faces |-> 0]

Init ==
    /\ libraryDefined \in BOOLEAN
    /\ initPc = "start"
    /\ retries = 0
    /\ loadingText = "initial"
    /\ oc = FALSE
    /\ listening = FALSE
    /\ hornTypeInput \in HornTypes
    /\ throatDiameterInput \in ThroatDiameters
    /\ mouthDiameterInput \in MouthDiameters
    /\ hornLengthInput \in HornLengths
    /\ segmentsInput \in SegmentCounts
    /\ targetFrequencyInput \in TargetFrequencies
    /\ autoCalculateLength = FALSE
    /\ hornLengthDisabled = FALSE
    /\ genCount = 0
    /\ profilePoints = << >>
    /\ infoPanel = 0
    /\ currentShape = 0
    /\ hornMeshes = << >>
    /\ downloadEnabled = FALSE
    /\ exported = NoExport
    /\ lastEvent = NoEvent("none")
    /\ hornGeometry = NoGeometry
    /\ stlString = << >>
    /\ explorerFace = NoFace
    /\ wireEdges = << >>

(***************************************************************************)
(* GENERATE (generateHorn and the functions it calls).                     *)
(***************************************************************************)
\* a createHornShape that asks for the face without a look at
\* wireMaker.IsDone()
createHornShapeUnchecked(points, kernel) ==
    IF Len(points) = 0
    THEN [result |-> "exception", stages |-> << >>]
    ELSE IF kernel[1] = "throws"
    THEN [result |-> "exception", stages |-> <<"wire">>]
    ELSE IF kernel[2] = "throws"
    THEN [result |-> "exception", stages |-> <<"wire", "face">>]
    ELSE IF kernel[2] = "notDone"
    THEN [result |-> "face", stages |-> <<"wire", "face">>]
    ELSE IF kernel[3] = "throws"
    THEN [result |-> "exception", stages |-> <<"wire", "face", "revolve">>]
    ELSE IF kernel[3] = "notDone"
    THEN [result |-> "revolve", stages |-> <<"wire", "face", "revolve">>]
    ELSE [result |-> IF kernel[1] = "notDone" THEN "wire" ELSE "ok",
          stages |-> <<"wire", "face", "revolve">>]

\* the run of createHornShape for the answers `kernel` of the kernel
\* stages: its result ("ok": a shape; the first stage that is not done, or
\* "exception": null) and the stages it called.  An empty profile makes
\* firstPt undefined, and firstPt.x throws before the wire is made.
createHornShapeRun(points, kernel) ==
    IF Len(points) = 0
    THEN [result |-> "exception", stages |-> << >>]
    ELSE IF kernel[1] = "throws"
    THEN [result |-> "exception", stages |-> <<"wire">>]
    ELSE IF kernel[1] = "notDone"
    THEN [result |-> "wire", stages |-> <<"wire">>]
    ELSE IF kernel[2] = "throws"
    THEN [result |-> "exception", stages |-> <<"wire", "face">>]
    ELSE IF kernel[2] = "notDone"
    THEN [result |-> "face", stages |-> <<"wire", "face">>]
    ELSE IF kernel[3] = "throws"
    THEN [result |-> "exception", stages |-> <<"wire", "face", "revolve">>]
    ELSE IF kernel[3] = "notDone"
    THEN [result |-> "revolve", stages |-> <<"wire", "face", "revolve">>]
    ELSE [result |-> "ok", stages |-> <<"wire", "face", "revolve">>]

\* what createHornShape returns
createHornShape(points, kernel) == createHornShapeRun(points, kernel).result

\* a render function that leaves the previous mesh in the scene
KeepExistingMesh(meshes) == meshes

\* const existingMesh = scene.getObjectByName('horn');
\* if (existingMesh) scene.remove(existingMesh)
RemoveExistingMesh(meshes) ==
    IF meshes = << >> THEN meshes ELSE Tail(meshes)

\* renderShape: the scene's horn objects after it
renderShape(meshes, shape, result) ==
    IF result = "failBeforeAdd"
    THEN RemoveExistingMesh(meshes)
    ELSE Append(RemoveExistingMesh(meshes), [horn |-> shape, builder |-> "kernel"])

\* renderHornWithThreeJS: the scene's horn objects after it
renderHornWithThreeJS(meshes, gen, result) ==
    IF result = "failBeforeAdd"
    THEN RemoveExistingMesh(meshes)
    ELSE Append(RemoveExistingMesh(meshes), [horn |-> gen, builder |-> "fallback"])

\* generateHorn up to the calculateHornProfile call: the controls' values
\* are parsed, the diameters halved, and the profile is calculated
ProfileForControls(type, throat, mouth, length, segs) ==
    calculateHornProfile(type, Div(Num(throat), Num(2)), Div(Num(mouth), Num(2)),
                         Num(length), segs)

\* ProfileForControls, evaluated once for every value of the controls
ProfileTable ==
    [type \in AllHornTypes, throat \in AllThroatDiameters,
     mouth \in AllMouthDiameters, length \in AllHornLengths,
     segs \in AllSegmentCounts |->
        ProfileForControls(type, throat, mouth, length, segs)]

\* a generateHorn that reports a failed createHornShape instead of falling
\* back to renderHornWithThreeJS
generateHornWithoutFallback(kernelModule, kernel, render) ==
    LET points == ProfileTable[hornTypeInput, throatDiameterInput, mouthDiameterInput,
                               hornLengthInput, segmentsInput]
        gen == genCount + 1
        shape == createHornShape(points, kernel)
    IN  /\ genCount' = gen
        /\ infoPanel' = gen
        /\ IF kernelModule /\ shape = "ok"
           THEN /\ currentShape' = gen
                /\ hornMeshes' = renderShape(hornMeshes, gen, render)
                /\ downloadEnabled' = TRUE
                /\ lastEvent' = [NoEvent("generate") EXCEPT
                                    !.samples = Len(points),
                                    !.solidBuilder = "ok",
                                    !.meshExtractor = render]
           ELSE /\ currentShape' = currentShape
                /\ hornMeshes' = hornMeshes
                /\ downloadEnabled' = downloadEnabled
                /\ lastEvent' = [NoEvent("generate") EXCEPT
                                    !.samples = Len(points),
                                    !.alert = "Error generating horn. Please check your parameters.",
                                    !.solidBuilder = IF kernelModule THEN shape
                                                     ELSE "notCalled"]

\* generateHorn, for the value `kernelModule` of oc when it is called, the
\* outcome of the kernel calls of createHornShape (if it is called) and the
\* outcome of the render function it calls
generateHorn(kernelModule, kernel, render) ==
    LET points == ProfileTable[hornTypeInput, throatDiameterInput, mouthDiameterInput,
                               hornLengthInput, segmentsInput]
        gen == genCount + 1
        run == createHornShapeRun(points, kernel)
        shape == run.result
    IN  /\ genCount' = gen
        /\ infoPanel' = gen
        /\ IF kernelModule /\ shape = "ok"
           THEN /\ currentShape' = gen
                /\ hornMeshes' = renderShape(hornMeshes, gen, render)
                /\ lastEvent' = [NoEvent("generate") EXCEPT
                                    !.samples = Len(points),
                                    !.solidBuilder = "ok",
                                    !.kernelStages = run.stages,
                                    !.meshExtractor = render]
           ELSE /\ currentShape' = currentShape
                /\ hornMeshes' = renderHornWithThreeJS(hornMeshes, gen, render)
                /\ lastEvent' = [NoEvent("generate") EXCEPT
                                    !.samples = Len(points),
                                    !.solidBuilder = IF kernelModule THEN shape
                                                     ELSE "notCalled",
                                    !.kernelStages = IF kernelModule THEN run.stages
                                                     ELSE << >>,
                                    !.fallbackBuilder = render]
        /\ downloadEnabled' = TRUE

(***************************************************************************)
(* STARTUP (init).                                                         *)
(***************************************************************************)
\* the script that defines opencascadeWasm finishes loading
LibraryLoads ==
    /\ ~libraryDefined
    /\ libraryDefined' = TRUE
    /\ UNCHANGED <<initPc, retries, loadingText, oc, listening, controls, horn,
                   exported, lastEvent, profilePoints, hornGeometry, stlString, builders>>

\* an init that calls setupEventListeners before it awaits the kernel
DOMContentLoadedListenersFirst ==
    /\ initPc = "start"
    /\ IF libraryDefined
       THEN /\ initPc' = "initializing"
            /\ loadingText' = "Initializing OpenCascade..."
       ELSE /\ initPc' = "polling"
            /\ loadingText' = "Loading OpenCascade library..."
    /\ retries' = 0
    /\ listening' = TRUE
    /\ UNCHANGED <<libraryDefined, oc, controls, horn, exported,
                   lastEvent, profilePoints, hornGeometry, stlString, builders>>

\* DOMContentLoaded: init runs up to its first await
DOMContentLoaded ==
    /\ initPc = "start"
    /\ IF libraryDefined
       THEN /\ initPc' = "initializing"
            /\ loadingText' = "Initializing OpenCascade..."
       ELSE /\ initPc' = "polling"
            /\ loadingText' = "Loading OpenCascade library..."
    /\ retries' = 0
    /\ UNCHANGED <<libraryDefined, oc, listening, controls, horn, exported,
                   lastEvent, profilePoints, hornGeometry, stlString, builders>>

\* a polling loop that gives up one iteration late
PollOnceMore ==
    /\ initPc = "polling"
    /\ retries' = retries + 1
    /\ IF libraryDefined
       THEN /\ initPc' = "initializing"
            /\ loadingText' = "Initializing OpenCascade..."
       ELSE IF retries = MAX_OPENCASCADE_LOAD_RETRIES
       THEN /\ initPc' = "failed"
            /\ loadingText' = "Error loading OpenCascade. Please refresh the page."
       ELSE /\ initPc' = "polling"
            /\ loadingText' = loadingText
    /\ UNCHANGED <<libraryDefined, oc, listening, controls, horn, exported,
                   lastEvent, profilePoints, hornGeometry, stlString, builders>>

\* a retry timer fires: the rest of one iteration of the polling loop.
\* retries counts the iterations made (the loop variable i, plus one).
Poll ==
    /\ initPc = "polling"
    /\ retries' = retries + 1
    /\ IF libraryDefined
       THEN /\ initPc' = "initializing"
            /\ loadingText' = "Initializing OpenCascade..."
       ELSE IF retries = MAX_OPENCASCADE_LOAD_RETRIES - 1
       THEN /\ initPc' = "failed"
            /\ loadingText' = "Error loading OpenCascade. Please refresh the page."
       ELSE /\ initPc' = "polling"
            /\ loadingText' = loadingText
    /\ UNCHANGED <<libraryDefined, oc, listening, controls, horn, exported,
                   lastEvent, profilePoints, hornGeometry, stlString, builders>>

\* opencascadeWasm() resolves: the rest of init.  initThreeJS may throw (no
\* WebGL context), which init's catch block reports.  init returns, and its
\* local variable retries is gone.
KernelResolves ==
    /\ initPc = "initializing"
    /\ oc' = TRUE
    /\ \E threeOk \in BOOLEAN :
        IF threeOk
        THEN /\ listening' = TRUE
             /\ loadingText' = "hidden"
             /\ initPc' = "ready"
             /\ \E kernel \in KernelResults, render \in RenderResults :
                    generateHorn(TRUE, kernel, render)
        ELSE /\ listening' = FALSE
             /\ loadingText' = "Error loading OpenCascade. Please refresh the page."
             /\ initPc' = "failed"
             /\ lastEvent' = NoEvent("init")
             /\ UNCHANGED horn
    /\ retries' = 0
    /\ UNCHANGED <<libraryDefined, controls, exported, profilePoints, hornGeometry,
                   stlString, builders>>

\* opencascadeWasm() rejects (or throws): init's catch block
KernelRejects ==
    /\ initPc = "initializing"
    /\ initPc' = "failed"
    /\ loadingText' = "Error loading OpenCascade. Please refresh the page."
    /\ retries' = 0
    /\ UNCHANGED <<libraryDefined, oc, listening, controls, horn,
                   exported, lastEvent, profilePoints, hornGeometry, stlString, builders>>

(***************************************************************************)
(* THE ARITHMETIC OF updateCalculatedLength.  Lengths that exceed the      *)
(* range of the 20-bit format are held with 8 fractional bits: the integer *)
(* w stands for w / Wide.                                                  *)
(***************************************************************************)
Wide == 2 ^ 8

\* const speedOfSound = 343000
speedOfSound == 343000

\* an estimate that saturates at 2000 before it is rounded
SaturatedLength(targetFreq, throatDiameter, mouthDiameter) ==
    LET wavelength == (2 * speedOfSound * Wide + targetFreq) \div (2 * targetFreq)
        quarter == (wavelength + 2) \div 4
        expansionRatio == Div(Num(mouthDiameter), Num(throatDiameter))
    IN  Min(2000 * Wide, Mul(quarter, MathLog(expansionRatio)))

\* (speedOfSound / targetFreq / 4) * Math.log(mouthDiameter / throatDiameter),
\* with 8 fractional bits
UnclampedLength(targetFreq, throatDiameter, mouthDiameter) ==
    LET wavelength == (2 * speedOfSound * Wide + targetFreq) \div (2 * targetFreq)
        quarter == (wavelength + 2) \div 4
        expansionRatio == Div(Num(mouthDiameter), Num(throatDiameter))
    IN  Mul(quarter, MathLog(expansionRatio))

\* Math.round(w): the nearest integer, halves rounded up
MathRound(w) == (w + Wide \div 2) \div Wide

\* an estimator without the upper clamp
calculatedLengthAtLeast50(targetFreq, throatDiameter, mouthDiameter) ==
    Max(50, MathRound(UnclampedLength(targetFreq, throatDiameter, mouthDiameter)))

\* Math.max(50, Math.min(2000, Math.round(length)))
calculatedLength(targetFreq, throatDiameter, mouthDiameter) ==
    Max(50, Min(2000, MathRound(UnclampedLength(targetFreq, throatDiameter,
                                                mouthDiameter))))

(***************************************************************************)
(* USER ACTIONS.                                                           *)
(***************************************************************************)
\* the user moves one input control
SetInput ==
    /\ \/ hornTypeInput' \in HornTypes \ {hornTypeInput}
          /\ UNCHANGED <<throatDiameterInput, mouthDiameterInput, hornLengthInput, segmentsInput,
                         targetFrequencyInput, autoCalculateLength, hornLengthDisabled>>
       \/ throatDiameterInput' \in ThroatDiameters \ {throatDiameterInput}
          /\ UNCHANGED <<hornTypeInput, mouthDiameterInput, hornLengthInput, segmentsInput,
                         targetFrequencyInput, autoCalculateLength, hornLengthDisabled>>
       \/ mouthDiameterInput' \in MouthDiameters \ {mouthDiameterInput}
          /\ UNCHANGED <<hornTypeInput, throatDiameterInput, hornLengthInput, segmentsInput,
                         targetFrequencyInput, autoCalculateLength, hornLengthDisabled>>
       \/ /\ ~hornLengthDisabled
          /\ hornLengthInput' \in HornLengths \ {hornLengthInput}
          /\ UNCHANGED <<hornTypeInput, throatDiameterInput, mouthDiameterInput, segmentsInput,
                         targetFrequencyInput, autoCalculateLength, hornLengthDisabled>>
       \/ segmentsInput' \in SegmentCounts \ {segmentsInput}
          /\ UNCHANGED <<hornTypeInput, throatDiameterInput, mouthDiameterInput, hornLengthInput,
                         targetFrequencyInput, autoCalculateLength, hornLengthDisabled>>
    /\ lastEvent' = NoEvent("input")
    /\ UNCHANGED <<startup, horn, exported, profilePoints, hornGeometry, stlString, builders>>

\* calculatedLength, evaluated once for every value of the controls
LengthTable ==
    [targetFreq \in TargetFrequencies, throatDiameter \in ThroatDiameters,
     mouthDiameter \in MouthDiameters |->
        calculatedLength(targetFreq, throatDiameter, mouthDiameter)]

\* the user clicks the checkbox autoCalculateLength: its change listener
\* disables the hornLength input and, when the box is checked, calls
\* updateCalculatedLength
ToggleAutoLength ==
    /\ listening
    /\ autoCalculateLength' = ~autoCalculateLength
    /\ hornLengthDisabled' = autoCalculateLength'
    /\ hornLengthInput' =
          IF autoCalculateLength'
          THEN LengthTable[targetFrequencyInput, throatDiameterInput,
                           mouthDiameterInput]
          ELSE hornLengthInput
    /\ lastEvent' = NoEvent("input")
    /\ UNCHANGED <<hornTypeInput, throatDiameterInput, mouthDiameterInput, segmentsInput,
                   targetFrequencyInput>>
    /\ UNCHANGED <<startup, horn, exported, profilePoints, hornGeometry, stlString, builders>>

\* the user moves the targetFrequency input: its second input listener
\* calls updateCalculatedLength when the box is checked
SetTargetFrequency ==
    /\ listening
    /\ targetFrequencyInput' \in TargetFrequencies \ {targetFrequencyInput}
    /\ hornLengthInput' =
          IF autoCalculateLength
          THEN LengthTable[targetFrequencyInput', throatDiameterInput,
                           mouthDiameterInput]
          ELSE hornLengthInput
    /\ lastEvent' = NoEvent("input")
    /\ UNCHANGED <<hornTypeInput, throatDiameterInput, mouthDiameterInput, segmentsInput,
                   autoCalculateLength, hornLengthDisabled>>
    /\ UNCHANGED <<startup, horn, exported, profilePoints, hornGeometry, stlString, builders>>

\* a click on the generate button: the listener is generateHorn
ClickGenerate ==
    /\ listening
    /\ genCount < MaxGenerations
    /\ \E kernel \in KernelResults, render \in RenderResults :
           generateHorn(oc, kernel, render)
    /\ UNCHANGED <<startup, controls, exported, profilePoints, hornGeometry, stlString, builders>>

\* a downloadSTLOpenCascade whose failure is made up for by the text route
downloadSTLOpenCascadeThenText(result) ==
    IF result = "ok"
    THEN /\ exported' = [route |-> "kernel", horn |-> currentShape,
                         result |-> result, fellBack |-> FALSE,
                         delivered |-> TRUE]
         /\ lastEvent' = NoEvent("download")
    ELSE /\ exported' = [route |-> "kernel", horn |-> currentShape,
                         result |-> result, fellBack |-> TRUE,
                         delivered |-> hornMeshes # << >>]
         /\ lastEvent' = NoEvent("download")

\* downloadSTLOpenCascade, for the outcome of its try block; what it throws
\* is caught and reported by downloadSTL
downloadSTLOpenCascade(result) ==
    /\ exported' = [route |-> "kernel", horn |-> currentShape,
                    result |-> result, fellBack |-> FALSE,
                    delivered |-> result \in {"ok", "cleanup"}]
    /\ lastEvent' = [NoEvent("download") EXCEPT
                        !.alert = IF result = "ok" THEN "none"
                                  ELSE "Error exporting STL. Please try again."]

\* downloadSTLThreeJS, for the outcome of its try block; what it throws is
\* caught and reported by downloadSTL
downloadSTLThreeJS(result) ==
    IF hornMeshes = << >>
    THEN /\ exported' = [route |-> "text", horn |-> 0, result |-> "none",
                         fellBack |-> FALSE, delivered |-> FALSE]
         /\ lastEvent' = [NoEvent("download") EXCEPT
                             !.alert = "Please generate a horn first"]
    ELSE /\ exported' = [route |-> "text", horn |-> Head(hornMeshes).horn,
                         result |-> result, fellBack |-> FALSE,
                         delivered |-> result \in {"ok", "cleanup"}]
         /\ lastEvent' = [NoEvent("download") EXCEPT
                             !.alert = IF result = "ok" THEN "none"
                                       ELSE "Error exporting STL. Please try again."]

\* a downloadSTL that takes the text route whenever the scene holds a mesh
ClickDownloadMeshFirst ==
    /\ listening
    /\ downloadEnabled
    /\ IF hornMeshes = << >>
       THEN \E result \in KernelExportResults : downloadSTLOpenCascade(result)
       ELSE \E result \in TextExportResults : downloadSTLThreeJS(result)
    /\ UNCHANGED <<startup, controls, horn, profilePoints, hornGeometry, stlString, builders>>

\* a click on the download button: the listener is downloadSTL
ClickDownload ==
    /\ listening
    /\ downloadEnabled
    /\ IF currentShape # 0 /\ oc
       THEN \E result \in KernelExportResults : downloadSTLOpenCascade(result)
       ELSE \E result \in TextExportResults : downloadSTLThreeJS(result)
    /\ UNCHANGED <<startup, controls, horn, profilePoints, hornGeometry, stlString, builders>>

Next ==
    \/ LibraryLoads
    \/ DOMContentLoaded
    \/ Poll
    \/ KernelResolves
    \/ KernelRejects
    \/ SetInput
    \/ ToggleAutoLength
    \/ SetTargetFrequency
    \/ ClickGenerate
    \/ ClickDownload

Spec == Init /\ [][Next]_vars

\* the browser fires DOMContentLoaded, and every retry timer fires
FairSpec ==
    /\ Spec
    /\ WF_vars(DOMContentLoaded)
    /\ WF_vars(Poll)

(***************************************************************************)
(* THE PROFILE GENERATOR ON ITS OWN: calculateHornProfile applied to the   *)
(* parsed values of the controls, for every value of the controls.         *)
(***************************************************************************)
ProfileInit ==
    /\ libraryDefined = FALSE
    /\ initPc = "start"
    /\ retries = 0
    /\ loadingText = "initial"
    /\ oc = FALSE
    /\ listening = FALSE
    /\ hornTypeInput \in AllHornTypes
    /\ throatDiameterInput \in AllThroatDiameters
    /\ mouthDiameterInput \in AllMouthDiameters
    /\ hornLengthInput \in AllHornLengths
    /\ segmentsInput \in AllSegmentCounts
    /\ targetFrequencyInput \in TargetFrequencies
    /\ autoCalculateLength = FALSE
    /\ hornLengthDisabled = FALSE
    /\ genCount = 0
    /\ profilePoints = << >>
    /\ infoPanel = 0
    /\ currentShape = 0
    /\ hornMeshes = << >>
    /\ downloadEnabled = FALSE
    /\ exported = NoExport
    /\ lastEvent = NoEvent("none")
    /\ hornGeometry = NoGeometry
    /\ stlString = << >>
    /\ explorerFace = NoFace
    /\ wireEdges = << >>

\* const profilePoints = calculateHornProfile(hornType, throatRadius,
\*                                            mouthRadius, length, segments)
CalculateProfile ==
    /\ lastEvent.handler = "none"
    /\ profilePoints' = ProfileTable[hornTypeInput, throatDiameterInput,
                                     mouthDiameterInput, hornLengthInput,
                                     segmentsInput]
    /\ lastEvent' = [NoEvent("profile") EXCEPT !.samples = Len(profilePoints')]
    /\ UNCHANGED <<startup, controls, horn, exported, hornGeometry, stlString, builders>>

ProfileSpec == ProfileInit /\ [][CalculateProfile]_vars

\* calculateHornProfile applied to types that are neither 'exponential'
\* nor 'tractrix'
OtherHornTypes == {"conical", "Exponential", ""}

OtherTypeInit ==
    /\ libraryDefined = FALSE
    /\ initPc = "start"
    /\ retries = 0
    /\ loadingText = "initial"
    /\ oc = FALSE
    /\ listening = FALSE
    /\ hornTypeInput \in OtherHornTypes
    /\ throatDiameterInput \in AllThroatDiameters
    /\ mouthDiameterInput \in AllMouthDiameters
    /\ hornLengthInput \in AllHornLengths
    /\ segmentsInput \in AllSegmentCounts
    /\ targetFrequencyInput \in TargetFrequencies
    /\ autoCalculateLength = FALSE
    /\ hornLengthDisabled = FALSE
    /\ genCount = 0
    /\ profilePoints = <<[x |-> 0, r |-> 0]>>
    /\ infoPanel = 0
    /\ currentShape = 0
    /\ hornMeshes = << >>
    /\ downloadEnabled = FALSE
    /\ exported = NoExport
    /\ lastEvent = NoEvent("none")
    /\ hornGeometry = NoGeometry
    /\ stlString = << >>
    /\ explorerFace = NoFace
    /\ wireEdges = << >>

CalculateOtherProfile ==
    /\ lastEvent.handler = "none"
    /\ profilePoints' = ProfileForControls(hornTypeInput, throatDiameterInput,
                                           mouthDiameterInput, hornLengthInput,
                                           segmentsInput)
    /\ lastEvent' = [NoEvent("profile") EXCEPT !.samples = Len(profilePoints')]
    /\ UNCHANGED <<startup, controls, horn, exported, hornGeometry, stlString, builders>>

OtherTypeSpec == OtherTypeInit /\ [][CalculateOtherProfile]_vars

(***************************************************************************)
(* THE INFO PANEL ON ITS OWN (updateInfoPanel, called by generateHorn      *)
(* after calculateHornProfile).  The panel is the record of the three      *)
(* texts written: cutoffFreq and volume in tenths (toFixed(1)),            *)
(* expansionRate in millionths (toFixed(6)).  Areas and volumes exceed the *)
(* range of the 20-bit format and are held with 8 fractional bits.         *)
(***************************************************************************)
steps == 100

\* a number of the 20-bit format with 8 fractional bits
ToWide(v) == DivInt(v, Scale \div Wide)
\* the product of two numbers with 8 fractional bits
MulWide(a, b) == DivInt(a * b, Wide)

RECURSIVE VolumeSum(_, _, _, _, _)
\* what iterations lo..hi of the loop add to volume:
\* Math.PI * r * r * (length / steps) with r = throatRadius * exp(flareConstant * x)
VolumeSum(throatRadius, flareConstant, length, lo, hi) ==
    IF lo > hi THEN 0
    ELSE IF lo = hi
    THEN LET px == Mul(Div(Num(lo), Num(steps)), length)
             r == Mul(throatRadius, MathExp(Mul(flareConstant, px)))
         IN  MulWide(MulWide(ToWide(Mul(MathPI, r)), ToWide(r)),
                     ToWide(Div(length, Num(steps))))
    ELSE LET mid == (lo + hi) \div 2
         IN  VolumeSum(throatRadius, flareConstant, length, lo, mid)
             + VolumeSum(throatRadius, flareConstant, length, mid + 1, hi)

\* a panel whose volume follows the selected horn type: the tractrix horn
\* is summed with the flare reduced by the smoothing factor
updateInfoPanelByType(hornType, throatRadius, mouthRadius, length, targetFreq) ==
    LET expansionRatio == Div(mouthRadius, throatRadius)
        flareConstant == Div(MathLog(expansionRatio), length)
        flare == IF hornType = "tractrix"
                 THEN Mul(flareConstant, Num(1) - smoothingFactor)
                 ELSE flareConstant
    IN  [cutoffFreq |-> DivInt(10 * (speedOfSound \div 4) * Wide, ToWide(length)),
         expansionRate |-> DivInt(flareConstant * 15625, 16384),
         volume |-> DivInt(VolumeSum(throatRadius, flare, length, 0, steps - 1),
                           100 * Wide)]

\* updateInfoPanel: the texts it writes.  cutoffFreq = speedOfSound /
\* (4 * length); expansionRate = flareConstant (1000000 / Scale is
\* 15625 / 16384); volume = the sum of the loop / 1000.
updateInfoPanel(hornType, throatRadius, mouthRadius, length, targetFreq) ==
    LET expansionRatio == Div(mouthRadius, throatRadius)
        flareConstant == Div(MathLog(expansionRatio), length)
    IN  [cutoffFreq |-> DivInt(10 * (speedOfSound \div 4) * Wide, ToWide(length)),
         expansionRate |-> DivInt(flareConstant * 15625, 16384),
         volume |-> DivInt(VolumeSum(throatRadius, flareConstant, length, 0, steps - 1),
                           100 * Wide)]

\* updateInfoPanel for the parsed values of the controls, evaluated once for
\* every value of the controls
InfoTable ==
    [type \in AllHornTypes, throat \in AllThroatDiameters,
     mouth \in AllMouthDiameters, length \in AllHornLengths,
     targetFreq \in TargetFrequencies |->
        updateInfoPanel(type, Div(Num(throat), Num(2)), Div(Num(mouth), Num(2)),
                        Num(length), targetFreq)]

\* updateInfoPanel(hornType, throatRadius, mouthRadius, hornLength,
\*                 targetFrequency), after the profile is calculated
UpdateInfoPanel ==
    /\ lastEvent.handler = "profile"
    /\ infoPanel' = InfoTable[hornTypeInput, throatDiameterInput, mouthDiameterInput,
                              hornLengthInput, targetFrequencyInput]
    /\ lastEvent' = [NoEvent("updateInfoPanel") EXCEPT !.samples = lastEvent.samples]
    /\ UNCHANGED <<startup, controls, genCount, currentShape, hornMeshes,
                   downloadEnabled, exported, profilePoints, hornGeometry, stlString,
                   builders>>

InfoSpec == ProfileInit /\ [][CalculateProfile \/ UpdateInfoPanel]_vars

(***************************************************************************)
(* THE FALLBACK MESH BUILDER ON ITS OWN (the try block of                  *)
(* renderHornWithThreeJS up to geometry.setIndex).  The arrays are         *)
(* sequences: element k of an array is element k + 1 of the sequence.      *)
(***************************************************************************)
\* const radialSegments = 64
radialSegments == 64

\* const theta = (j / radialSegments) * Math.PI * 2
Theta(j) == Mul(Mul(Div(Num(j), Num(radialSegments)), MathPI), Num(2))

\* Math.cos(theta) and Math.sin(theta) for every j of the inner loop
CosTheta == [j \in 0..radialSegments |-> MathCos(Theta(j))]
SinTheta == [j \in 0..radialSegments |-> MathSin(Theta(j))]

\* the vertex the inner loop pushes for index j: x, y, z
FallbackVertex(point, j) ==
    <<point.x, Mul(CosTheta[j], point.r), Mul(SinTheta[j], point.r)>>

RECURSIVE FallbackRingOpen(_, _, _)
\* a ring whose last iteration is left out
FallbackRingOpen(point, lo, hi) ==
    IF lo > hi - 1
    THEN << >>
    ELSE IF lo = hi - 1
    THEN FallbackVertex(point, lo)
    ELSE LET mid == (lo + hi - 1) \div 2
         IN  FallbackRingOpen(point, lo, mid + 1) \o FallbackRingOpen(point, mid + 1, hi)

RECURSIVE FallbackRing(_, _, _)
\* for (let j = 0; j <= radialSegments; j++) { ...; vertices.push(x, y, z); }
\* what iterations lo..hi of the loop push, in order
FallbackRing(point, lo, hi) ==
    IF lo > hi
    THEN << >>
    ELSE IF lo = hi
    THEN FallbackVertex(point, lo)
    ELSE LET mid == (lo + hi) \div 2
         IN  FallbackRing(point, lo, mid) \o FallbackRing(point, mid + 1, hi)

RECURSIVE FallbackVertices(_, _, _)
\* for (let i = 0; i < profilePoints.length; i++) { ... }
\* what iterations lo..hi of the loop push, in order
FallbackVertices(points, lo, hi) ==
    IF lo > hi
    THEN << >>
    ELSE FallbackRing(points[lo + 1], 0, radialSegments)
            \o FallbackVertices(points, lo + 1, hi)

\* the body of the inner index loop:
\* indices.push(a, b, c); indices.push(c, b, d)
FallbackQuad(i, j) ==
    LET a == i * (radialSegments + 1) + j
        b == a + radialSegments + 1
        c == a + 1
        d == b + 1
    IN  <<a, b, c>> \o <<c, b, d>>

RECURSIVE FallbackQuads(_, _, _)
\* for (let j = 0; j < radialSegments; j++) { ... }
\* what iterations lo..hi of the loop push, in order
FallbackQuads(i, lo, hi) ==
    IF lo > hi
    THEN << >>
    ELSE IF lo = hi
    THEN FallbackQuad(i, lo)
    ELSE LET mid == (lo + hi) \div 2
         IN  FallbackQuads(i, lo, mid) \o FallbackQuads(i, mid + 1, hi)

RECURSIVE FallbackIndices(_, _, _)
\* for (let i = 0; i < profilePoints.length - 1; i++) { ... }
\* what iterations lo..hi of the loop push, in order
FallbackIndices(points, lo, hi) ==
    IF lo > hi
    THEN << >>
    ELSE FallbackQuads(lo, 0, radialSegments - 1)
            \o FallbackIndices(points, lo + 1, hi)

\* the arrays `vertices` and `indices` renderHornWithThreeJS builds
FallbackGeometry(points) ==
    [vertices |-> FallbackVertices(points, 0, Len(points) - 1),
     indices |-> FallbackIndices(points, 0, Len(points) - 2),
     faces |-> 0]

\* renderHornWithThreeJS(profilePoints), for the profile of the controls'
\* values
BuildFallbackGeometry ==
    /\ lastEvent.handler = "none"
    /\ profilePoints' = ProfileTable[hornTypeInput, throatDiameterInput,
                                     mouthDiameterInput, hornLengthInput,
                                     segmentsInput]
    /\ hornGeometry' = FallbackGeometry(profilePoints')
    /\ lastEvent' = [NoEvent("renderHornWithThreeJS") EXCEPT
                        !.samples = Len(profilePoints')]
    /\ UNCHANGED <<startup, controls, horn, exported, stlString, builders>>

FallbackSpec == ProfileInit /\ [][BuildFallbackGeometry]_vars

(***************************************************************************)
(* THE WIRE OF THE SOLID BUILDER ON ITS OWN (createHornShape up to the     *)
(* last wireMaker.Add_1 call).  An edge is the pair of its end points, a   *)
(* point the triple of its coordinates.                                    *)
(***************************************************************************)
\* the edges in the order in which the closing edges are made
WireEdgesThroatFirst(points) ==
    LET firstPt == points[1]
        lastPt == points[Len(points)]
        profileEdges == [i \in 1..(Len(points) - 1) |->
                            << <<points[i].x, points[i].r, 0>>,
                               <<points[i + 1].x, points[i + 1].r, 0>> >>]
        throatEdge == << <<firstPt.x, firstPt.r, 0>>, <<firstPt.x, 0, 0>> >>
        axisEdge == << <<firstPt.x, 0, 0>>, <<lastPt.x, 0, 0>> >>
        mouthEdge == << <<lastPt.x, 0, 0>>, <<lastPt.x, lastPt.r, 0>> >>
    IN  profileEdges \o <<throatEdge, axisEdge, mouthEdge>>

\* the edges handed to wireMaker.Add_1, in the order of the calls
WireEdges(points) ==
    LET firstPt == points[1]
        lastPt == points[Len(points)]
        profileEdges == [i \in 1..(Len(points) - 1) |->
                            << <<points[i].x, points[i].r, 0>>,
                               <<points[i + 1].x, points[i + 1].r, 0>> >>]
        throatEdge == << <<firstPt.x, firstPt.r, 0>>, <<firstPt.x, 0, 0>> >>
        axisEdge == << <<firstPt.x, 0, 0>>, <<lastPt.x, 0, 0>> >>
        mouthEdge == << <<lastPt.x, 0, 0>>, <<lastPt.x, lastPt.r, 0>> >>
    IN  profileEdges \o <<mouthEdge, axisEdge, throatEdge>>

\* createHornShape(profilePoints) up to wireMaker.IsDone(), for the profile
\* of the controls' values
BuildWire ==
    /\ lastEvent.handler = "none"
    /\ profilePoints' = ProfileTable[hornTypeInput, throatDiameterInput,
                                     mouthDiameterInput, hornLengthInput,
                                     segmentsInput]
    /\ wireEdges' = WireEdges(profilePoints')
    /\ lastEvent' = [NoEvent("createHornShape") EXCEPT
                        !.samples = Len(profilePoints')]
    /\ UNCHANGED <<startup, controls, horn, exported, hornGeometry, stlString,
                   explorerFace>>

WireSpec == ProfileInit /\ [][BuildWire]_vars

(***************************************************************************)
(* THE MESH EXTRACTOR ON ITS OWN (the while loop of renderShape).  A face  *)
(* of the shape is what the kernel reports for it: whether its             *)
(* triangulation is null, its nodes (their transformed coordinates), its   *)
(* triangles (three node numbers each) and its orientation.                *)
(***************************************************************************)
\* the most faces the explorer visits
MaxFaces == 2

\* the node counts and triangle counts of a face
FaceNodeCounts == {1, 3}
FaceTriangleCounts == {0, 1}

\* the triangulations the kernel may report: every triangle references
\* node numbers of its face
Faces ==
    {NoFace}
    \cup UNION {
        [isNull : {FALSE},
         nodes : {[n \in 1..nodeCount |-> <<Num(n), 0, 0>>]},
         triangles : UNION {[1..triangleCount -> [1..3 -> 1..nodeCount]] :
                               triangleCount \in FaceTriangleCounts},
         reversed : BOOLEAN] : nodeCount \in FaceNodeCounts}

RECURSIVE FaceVertices(_, _)
\* for (let i = 1; i <= nodeCount; i++) { ...; vertices.push(X, Y, Z); }
FaceVertices(face, i) ==
    IF i > Len(face.nodes)
    THEN << >>
    ELSE face.nodes[i] \o FaceVertices(face, i + 1)

RECURSIVE FaceIndicesNoOffset(_, _, _)
\* triangles whose node numbers are not shifted by the offset of the face
FaceIndicesNoOffset(face, indexOffset, i) ==
    IF i > Len(face.triangles)
    THEN << >>
    ELSE LET triangle == face.triangles[i]
             i1 == triangle[1] - 1
             i2 == triangle[2] - 1
             i3 == triangle[3] - 1
         IN  (IF face.reversed THEN <<i1, i3, i2>> ELSE <<i1, i2, i3>>)
                \o FaceIndicesNoOffset(face, indexOffset, i + 1)

RECURSIVE FaceIndices(_, _, _)
\* for (let i = 1; i <= triangleCount; i++) { ...; indices.push(i1, i2, i3); }
FaceIndices(face, indexOffset, i) ==
    IF i > Len(face.triangles)
    THEN << >>
    ELSE LET triangle == face.triangles[i]
             i1 == triangle[1] - 1 + indexOffset
             i2 == triangle[2] - 1 + indexOffset
             i3 == triangle[3] - 1 + indexOffset
         IN  (IF face.reversed THEN <<i1, i3, i2>> ELSE <<i1, i2, i3>>)
                \o FaceIndices(face, indexOffset, i + 1)

RECURSIVE Rewound(_, _)
\* an index array with the second and third index of every triangle from
\* number i on swapped
Rewound(indices, i) ==
    IF 3 * i + 3 > Len(indices)
    THEN << >>
    ELSE <<indices[3 * i + 1], indices[3 * i + 3], indices[3 * i + 2]>>
            \o Rewound(indices, i + 1)

\* an iteration in which a reversed face re-winds the triangles of the
\* faces before it
ExtractFaceRewinding(geometry, face) ==
    IF face.isNull
    THEN [geometry EXCEPT !.faces = @ + 1]
    ELSE LET indexOffset == Len(geometry.vertices) \div 3
         IN  [vertices |-> geometry.vertices \o FaceVertices(face, 1),
              indices |-> (IF face.reversed THEN Rewound(geometry.indices, 0)
                           ELSE geometry.indices)
                          \o FaceIndices(face, indexOffset, 1),
              faces |-> geometry.faces + 1]

\* one iteration of the while loop: the arrays after the face is processed
ExtractFace(geometry, face) ==
    IF face.isNull
    THEN [geometry EXCEPT !.faces = @ + 1]
    ELSE LET indexOffset == Len(geometry.vertices) \div 3
         IN  [vertices |-> geometry.vertices \o FaceVertices(face, 1),
              indices |-> geometry.indices \o FaceIndices(face, indexOffset, 1),
              faces |-> geometry.faces + 1]

\* a loop that a face without triangulation ends
ExploreFaceStoppingAtNull ==
    /\ hornGeometry.faces < MaxFaces
    /\ \E face \in Faces :
          /\ explorerFace' = face
          /\ hornGeometry' = IF face.isNull
                             THEN [hornGeometry EXCEPT !.faces = MaxFaces]
                             ELSE ExtractFace(hornGeometry, face)
    /\ lastEvent' = NoEvent("renderShape")
    /\ UNCHANGED <<startup, controls, horn, exported, profilePoints, stlString,
                   wireEdges>>

\* explorer.More() holds: the loop body runs for explorer.Current()
ExploreFace ==
    /\ hornGeometry.faces < MaxFaces
    /\ \E face \in Faces :
          /\ explorerFace' = face
          /\ hornGeometry' = ExtractFace(hornGeometry, face)
    /\ lastEvent' = NoEvent("renderShape")
    /\ UNCHANGED <<startup, controls, horn, exported, profilePoints, stlString,
                   wireEdges>>

ExtractorInit ==
    /\ libraryDefined = TRUE
    /\ initPc = "ready"
    /\ retries = 0
    /\ loadingText = "hidden"
    /\ oc = TRUE
    /\ listening = TRUE
    /\ hornTypeInput = "exponential"
    /\ throatDiameterInput = 20
    /\ mouthDiameterInput = 60
    /\ hornLengthInput = 100
    /\ segmentsInput = 2
    /\ targetFrequencyInput = 1000
    /\ autoCalculateLength = FALSE
    /\ hornLengthDisabled = FALSE
    /\ genCount = 0
    /\ profilePoints = << >>
    /\ infoPanel = 0
    /\ currentShape = 0
    /\ hornMeshes = << >>
    /\ downloadEnabled = FALSE
    /\ exported = NoExport
    /\ lastEvent = NoEvent("none")
    /\ hornGeometry = NoGeometry
    /\ stlString = << >>
    /\ explorerFace = NoFace
    /\ wireEdges = << >>

ExtractorSpec == ExtractorInit /\ [][ExploreFace]_vars

(***************************************************************************)
(* THE LENGTH ESTIMATOR ON ITS OWN: updateCalculatedLength applied to the  *)
(* values of the three controls it reads.                                  *)
(***************************************************************************)
\* the values updateCalculatedLength is applied to on its own
EstimatorFrequencies ==
    TargetFrequencies \cup {20, 50, 100, 200, 500, 1000, 2000, 5000, 10000, 20000}
EstimatorThroatDiameters == {20, 25, 60}
EstimatorMouthDiameters == {60, 300}

EstimatorInit ==
    /\ libraryDefined = FALSE
    /\ initPc = "start"
    /\ retries = 0
    /\ loadingText = "initial"
    /\ oc = FALSE
    /\ listening = FALSE
    /\ hornTypeInput = "exponential"
    /\ throatDiameterInput \in EstimatorThroatDiameters
    /\ mouthDiameterInput \in EstimatorMouthDiameters
    /\ hornLengthInput \in HornLengths
    /\ segmentsInput \in SegmentCounts
    /\ targetFrequencyInput \in EstimatorFrequencies
    /\ autoCalculateLength = FALSE
    /\ hornLengthDisabled = FALSE
    /\ genCount = 0
    /\ profilePoints = << >>
    /\ infoPanel = 0
    /\ currentShape = 0
    /\ hornMeshes = << >>
    /\ downloadEnabled = FALSE
    /\ exported = NoExport
    /\ lastEvent = NoEvent("none")
    /\ hornGeometry = NoGeometry
    /\ stlString = << >>
    /\ explorerFace = NoFace
    /\ wireEdges = << >>

\* updateCalculatedLength: the estimate is written to the hornLength input
updateCalculatedLength ==
    /\ lastEvent.handler = "none"
    /\ hornLengthInput' = calculatedLength(targetFrequencyInput,
                                           throatDiameterInput,
                                           mouthDiameterInput)
    /\ lastEvent' = NoEvent("estimate")
    /\ UNCHANGED <<startup, hornTypeInput, throatDiameterInput, mouthDiameterInput,
                   segmentsInput, targetFrequencyInput, autoCalculateLength,
                   hornLengthDisabled, horn,
                   exported,
                   profilePoints, hornGeometry, stlString, builders>>

EstimatorSpec == EstimatorInit /\ [][updateCalculatedLength]_vars

(***************************************************************************)
(* THE TEXT SERIALISER ON ITS OWN (the try block of downloadSTLThreeJS up  *)
(* to the blob).  The text is the sequence of its lines (what "\n" ends),  *)
(* a line the sequence of its words (what spaces separate); a keyword is   *)
(* kept whole, a number is the sequence of its characters.  A template     *)
(* literal turns a number into the shortest decimal that reads back as     *)
(* the same number (Number::toString); with 20 fractional bits no number   *)
(* is small enough for the exponent form.                                  *)
(***************************************************************************)
DigitChar == <<"0", "1", "2", "3", "4", "5", "6", "7", "8", "9">>

Chars(digits) == [k \in 1..Len(digits) |-> DigitChar[digits[k] + 1]]

RECURSIVE IntegerDigits(_)
IntegerDigits(n) ==
    IF n < 10 THEN <<n>> ELSE Append(IntegerDigits(n \div 10), n % 10)

RECURSIVE FractionDigitsFixed(_, _, _)
\* the digits of a fraction, cut after the third
FractionDigitsFixed(rest, margin, digits) ==
    LET t == 10 * rest
        u == t \div (2 * Scale)
    IN  IF t % (2 * Scale) = 0 \/ Len(digits) = 2
        THEN Append(digits, u)
        ELSE FractionDigitsFixed(t % (2 * Scale), 10 * margin, Append(digits, u))

RECURSIVE FractionDigits(_, _, _)
\* the digits of the fraction rest / (2 * Scale): digits are generated
\* until what is left is within the margin (half a unit of the last binary
\* place, scaled like rest) of the next lower or the next higher decimal
FractionDigits(rest, margin, digits) ==
    LET t == 10 * rest
        u == t \div (2 * Scale)
        left == t % (2 * Scale)
        m == 10 * margin
    IN  IF left < m \/ left > 2 * Scale - m
        THEN Append(digits, IF left <= Scale THEN u ELSE u + 1)
        ELSE FractionDigits(left, m, Append(digits, u))

\* `${v}`
NumberToString(v) ==
    LET a == Abs(v)
        f == a % Scale
    IN  (IF v < 0 THEN <<"-">> ELSE << >>)
        \o Chars(IntegerDigits(a \div Scale))
        \o (IF f = 0 THEN << >>
            ELSE <<".">> \o Chars(FractionDigits(2 * f, 1, << >>)))

\* a facet whose loop is closed after the facet
FacetLinesMisnested(geometry, i) ==
    LET i1 == geometry.indices[i + 1] * 3
        i2 == geometry.indices[i + 2] * 3
        i3 == geometry.indices[i + 3] * 3
        n == i1
        VertexLine(k) ==
            << <<"vertex">>, NumberToString(geometry.vertices[k + 1]),
               NumberToString(geometry.vertices[k + 2]),
               NumberToString(geometry.vertices[k + 3]) >>
    IN  << << <<"facet">>, <<"normal">>,
              NumberToString(geometry.normals[n + 1]),
              NumberToString(geometry.normals[n + 2]),
              NumberToString(geometry.normals[n + 3]) >>,
           << <<"outer">>, <<"loop">> >>,
           VertexLine(i1), VertexLine(i2), VertexLine(i3),
           << <<"endfacet">> >>,
           << <<"endloop">> >> >>

\* the seven lines of the facet of indices[i], indices[i + 1], indices[i + 2]
\* (i counted from 0)
FacetLines(geometry, i) ==
    LET i1 == geometry.indices[i + 1] * 3
        i2 == geometry.indices[i + 2] * 3
        i3 == geometry.indices[i + 3] * 3
        n == i1
        VertexLine(k) ==
            << <<"vertex">>, NumberToString(geometry.vertices[k + 1]),
               NumberToString(geometry.vertices[k + 2]),
               NumberToString(geometry.vertices[k + 3]) >>
    IN  << << <<"facet">>, <<"normal">>,
              NumberToString(geometry.normals[n + 1]),
              NumberToString(geometry.normals[n + 2]),
              NumberToString(geometry.normals[n + 3]) >>,
           << <<"outer">>, <<"loop">> >>,
           VertexLine(i1), VertexLine(i2), VertexLine(i3),
           << <<"endloop">> >>,
           << <<"endfacet">> >> >>

RECURSIVE IndexedFacets(_, _)
\* the loop over the index array
IndexedFacets(geometry, i) ==
    IF i < Len(geometry.indices)
    THEN FacetLines(geometry, i) \o IndexedFacets(geometry, i + 3)
    ELSE << >>

\* stlString of an indexed geometry (both mesh builders set the index)
stlText(geometry) ==
    << << <<"solid">>, <<"horn">> >> >>
    \o IndexedFacets(geometry, 0)
    \o << << <<"endsolid">>, <<"horn">> >> >>

\* the meshes the serialiser is applied to
MaxTriangles == 2
SerializerPoints ==
    { <<0, Num(10), 0>>,
      <<1, -1, Scale - 1>>,
      FallbackVertex([x |-> Num(50), r |-> Num(15)], 5),
      FallbackVertex([x |-> Div(Num(100), Num(3)), r |-> Num(30)], 40) }
SerializerNormals == { <<0, 0, 0>>, <<0, Div(Num(-3), Num(5)), Div(Num(4), Num(5))>> }
SerializerTriples == { <<0, 1, 2>>, <<2, 1, 0>>, <<1, 1, 2>> }

RECURSIVE Flatten(_)
Flatten(seq) == IF seq = << >> THEN << >> ELSE Head(seq) \o Flatten(Tail(seq))

SerializerMeshes ==
    { [vertices |-> Flatten(points),
       normals |-> Flatten([k \in 1..3 |-> normal]),
       indices |-> Flatten(triples),
       faces |-> 0] :
        points \in [1..3 -> SerializerPoints],
        normal \in SerializerNormals,
        triples \in UNION { [1..count -> SerializerTriples] :
                              count \in 1..MaxTriangles } }

SerializerInit ==
    /\ libraryDefined = TRUE
    /\ initPc = "ready"
    /\ retries = 0
    /\ loadingText = "hidden"
    /\ oc = FALSE
    /\ listening = TRUE
    /\ hornTypeInput = "exponential"
    /\ throatDiameterInput = 20
    /\ mouthDiameterInput = 60
    /\ hornLengthInput = 100
    /\ segmentsInput = 2
    /\ targetFrequencyInput = 1000
    /\ autoCalculateLength = FALSE
    /\ hornLengthDisabled = FALSE
    /\ genCount = 0
    /\ profilePoints = << >>
    /\ infoPanel = 0
    /\ currentShape = 0
    /\ hornMeshes = << >>
    /\ downloadEnabled = FALSE
    /\ exported = NoExport
    /\ lastEvent = NoEvent("none")
    /\ hornGeometry \in SerializerMeshes
    /\ stlString = << >>
    /\ explorerFace = NoFace
    /\ wireEdges = << >>

\* the try block of downloadSTLThreeJS, up to the blob
SerializeMesh ==
    /\ lastEvent.handler = "none"
    /\ stlString' = stlText(hornGeometry)
    /\ lastEvent' = NoEvent("downloadSTLThreeJS")
    /\ UNCHANGED <<startup, controls, horn, exported, profilePoints, hornGeometry,
                   builders>>

SerializerSpec == SerializerInit /\ [][SerializeMesh]_vars

(***************************************************************************)
(* PROPERTIES.                                                             *)
(***************************************************************************)
\* the parsed parameters of generateHorn
ThroatRadius == Div(Num(throatDiameterInput), Num(2))
MouthRadius == Div(Num(mouthDiameterInput), Num(2))
HornLength == Num(hornLengthInput)

\* the parameters the specification calls valid
ValidParameters ==
    /\ 0 < ThroatRadius
    /\ ThroatRadius < MouthRadius
    /\ HornLength > 0
    /\ segmentsInput >= 2

\* calculateHornProfile has been applied to the controls' values
ProfileCalculated == lastEvent.handler = "profile"

\* C1: for valid parameters and both profile kinds the first sample of the
\* profile is (x = 0, r = throatRadius) and the last sample is
\* (x = length, r = mouthRadius), exactly.
C1_EndpointsExact ==
    (ProfileCalculated /\ ValidParameters) =>
        /\ Len(profilePoints) >= 2
        /\ profilePoints[1].x = 0
        /\ profilePoints[1].r = ThroatRadius
        /\ profilePoints[Len(profilePoints)].x = HornLength
        /\ profilePoints[Len(profilePoints)].r = MouthRadius

\* C2: for valid parameters and both profile kinds every sample has
\* throatRadius <= r <= mouthRadius and 0 <= x <= length, and x is
\* non-decreasing along the sequence.
C2_SamplesWithinBounds ==
    (ProfileCalculated /\ ValidParameters) =>
        /\ \A k \in 1..Len(profilePoints) :
              /\ ThroatRadius <= profilePoints[k].r
              /\ profilePoints[k].r <= MouthRadius
              /\ 0 <= profilePoints[k].x
              /\ profilePoints[k].x <= HornLength
        /\ \A k \in 1..(Len(profilePoints) - 1) :
              profilePoints[k].x <= profilePoints[k + 1].x

\* generateHorn was the last handler to run
Generated == lastEvent.handler = "generate"

\* the scene shows the horn of the last generateHorn call
DisplaysLatestHorn ==
    /\ hornMeshes # << >>
    /\ Head(hornMeshes).horn = genCount

\* C3: an export serialises the horn of the most recent generate action,
\* never the horn of an earlier one.
C3_ExportsMostRecentHorn ==
    (lastEvent.handler = "download" /\ exported.delivered) =>
        exported.horn = genCount

\* C4: a generate action with throatRadius >= mouthRadius, length <= 0 or
\* fewer than 2 segments calculates no samples and hands none to the solid
\* builder or to the fallback mesh builder.
C4_InvalidParametersRejected ==
    (Generated /\ ~ValidParameters) =>
        /\ lastEvent.samples <= 0
        /\ lastEvent.solidBuilder = "notCalled"
        /\ lastEvent.fallbackBuilder = "notCalled"

\* C5: a generate action with invalid parameters leaves the current shape,
\* the displayed horn mesh and the displayed metrics as they were.
C5_InvalidGenerateChangesNothing ==
    [][(genCount' # genCount /\ ~ValidParameters) =>
           UNCHANGED <<currentShape, hornMeshes, infoPanel>>]_vars

\* C6: when renderShape fails to mesh a shape that createHornShape built,
\* the same generate action calls the fallback mesh builder, and the scene
\* shows that horn unless the fallback mesh builder fails too.
C6_MeshingFailureFallsBack ==
    (Generated /\ lastEvent.solidBuilder = "ok"
               /\ lastEvent.meshExtractor = "failBeforeAdd") =>
        /\ lastEvent.fallbackBuilder # "notCalled"
        /\ lastEvent.fallbackBuilder = "ok" => DisplaysLatestHorn

\* createHornShape was called by the last generate action and returned null
ShapeCreationFailed ==
    /\ Generated
    /\ lastEvent.solidBuilder \in {"wire", "face", "revolve", "exception"}

\* C7: when createHornShape fails at any stage while the kernel is
\* initialised, the same generate action calls renderHornWithThreeJS, shows
\* no alert and enables the download button.
C7_ShapeFailureFallsBack ==
    ShapeCreationFailed =>
        /\ lastEvent.fallbackBuilder # "notCalled"
        /\ lastEvent.alert = "none"
        /\ downloadEnabled
        /\ lastEvent.fallbackBuilder # "failBeforeAdd" => DisplaysLatestHorn

C7_Witness ==
    /\ ShapeCreationFailed
    /\ oc
    /\ lastEvent.solidBuilder = "revolve"
    /\ lastEvent.fallbackBuilder = "ok"
    /\ Head(hornMeshes) = [horn |-> genCount, builder |-> "fallback"]

\* init gave up: the library did not load in time, or opencascadeWasm()
\* rejected
KernelUnavailable == initPc = "failed" /\ ~oc

\* C8: when the kernel is unavailable a generate action can still be
\* triggered.
C8_GenerateWithoutKernel ==
    KernelUnavailable => ENABLED ClickGenerate

\* C9: init polls at most MAX_OPENCASCADE_LOAD_RETRIES times; a poll that
\* finds the library defined, the 50th included, proceeds to initialise the
\* kernel; the 50th poll that finds it undefined stops polling and shows
\* the error message; and polling always ends.
C9_PollingTerminates ==
    /\ [](retries <= MAX_OPENCASCADE_LOAD_RETRIES)
    /\ [][(initPc = "polling" /\ retries' # retries /\ libraryDefined) =>
              initPc' = "initializing"]_vars
    /\ [][(initPc = "polling" /\ retries' # retries /\ ~libraryDefined) =>
              IF retries' = MAX_OPENCASCADE_LOAD_RETRIES
              THEN /\ initPc' = "failed"
                   /\ loadingText' = "Error loading OpenCascade. Please refresh the page."
              ELSE initPc' = "polling"]_vars
    /\ (initPc = "polling") ~> (initPc \in {"initializing", "failed"})

C9_Witness ==
    /\ initPc = "failed"
    /\ retries = MAX_OPENCASCADE_LOAD_RETRIES
    /\ ~libraryDefined
    /\ loadingText = "Error loading OpenCascade. Please refresh the page."

\* C10: generateHorn and downloadSTL are called only after oc has been
\* assigned.
C10_NoGeometryBeforeKernel ==
    (genCount > 0 \/ exported.route # "none") => oc

C10_Witness ==
    /\ genCount > 0
    /\ exported.route # "none"
    /\ oc

\* a failure was shown to the user: init's error text, or an alert of the
\* last handler
SurfacedFailure ==
    \/ initPc = "failed"
    \/ lastEvent.alert \notin {"none", "Please generate a horn first"}

\* C11: after a surfaced failure (of init, of a generate action or of an
\* export) a generate action is still accepted.
C11_InteractiveAfterFailure ==
    (SurfacedFailure /\ genCount < MaxGenerations) => ENABLED ClickGenerate

\* updateCalculatedLength was the last handler to run
Estimated == lastEvent.handler = "estimate"

C13_EstimateDecreasing ==
    (Estimated /\ 0 < throatDiameterInput
               /\ throatDiameterInput < mouthDiameterInput) =>
        \A f1, f2 \in EstimatorFrequencies :
            f1 < f2 =>
                UnclampedLength(f1, throatDiameterInput, mouthDiameterInput)
                    > UnclampedLength(f2, throatDiameterInput, mouthDiameterInput)

C13_Witness ==
    /\ Estimated
    /\ throatDiameterInput < mouthDiameterInput
    /\ targetFrequencyInput = 500
    /\ hornLengthInput \in 51..1999

\* the inputs the specification lets the length estimator accept
EstimatorInputsValid ==
    /\ throatDiameterInput > 0
    /\ mouthDiameterInput > throatDiameterInput
    /\ targetFrequencyInput > 0

\* C14: for throatRadius <= 0, mouthRadius <= throatRadius or
\* targetFrequency <= 0 the length estimator reports a failure and writes
\* no length.
C14_EstimatorRejectsInvalid ==
    [][(lastEvent'.handler = "estimate" /\ ~EstimatorInputsValid) =>
           /\ hornLengthInput' = hornLengthInput
           /\ lastEvent'.alert # "none"]_vars

\* the fallback mesh builder was applied to the profile
FallbackBuilt == lastEvent.handler = "renderHornWithThreeJS"

\* the number of vertices in the vertex array
VertexCount == Len(hornGeometry.vertices) \div 3

\* C15: for a profile of n >= 2 samples the fallback mesh builder emits
\* n * (radialSegments + 1) vertices and 6 * (n - 1) * radialSegments
\* indices; the number of indices is a multiple of 3 and every index is
\* >= 0 and < the vertex count.
C15_FallbackMeshCounts ==
    (FallbackBuilt /\ Len(profilePoints) >= 2) =>
        /\ Len(hornGeometry.vertices)
              = 3 * Len(profilePoints) * (radialSegments + 1)
        /\ Len(hornGeometry.indices)
              = 6 * (Len(profilePoints) - 1) * radialSegments
        /\ Len(hornGeometry.indices) % 3 = 0
        /\ \A k \in 1..Len(hornGeometry.indices) :
              /\ hornGeometry.indices[k] >= 0
              /\ hornGeometry.indices[k] < VertexCount

C15_Witness ==
    /\ FallbackBuilt
    /\ Len(profilePoints) = 3
    /\ Len(hornGeometry.indices) = 768
    /\ VertexCount = 195

\* vertex k of the vertex array (k counted from 0): its x, y, z
MeshVertex(k) ==
    <<hornGeometry.vertices[3 * k + 1], hornGeometry.vertices[3 * k + 2],
      hornGeometry.vertices[3 * k + 3]>>

\* triangle t of the index array (t counted from 0): its three vertices
MeshTriangle(t) ==
    <<MeshVertex(hornGeometry.indices[3 * t + 1]),
      MeshVertex(hornGeometry.indices[3 * t + 2]),
      MeshVertex(hornGeometry.indices[3 * t + 3])>>

\* (p - q) / 16: an edge vector, scaled down so that products stay in range
Edge(pp, qq) ==
    <<DivInt(pp[1] - qq[1], 16), DivInt(pp[2] - qq[2], 16),
      DivInt(pp[3] - qq[3], 16)>>

\* the cross product u x v
Cross(u, v) ==
    <<Mul(u[2], v[3]) - Mul(u[3], v[2]),
      Mul(u[3], v[1]) - Mul(u[1], v[3]),
      Mul(u[1], v[2]) - Mul(u[2], v[1])>>

\* the normal of the triangle by the right-hand rule on its vertex order,
\* times the direction from the axis (the x axis) to the triangle's centroid
RadialNormal(tri) ==
    LET nrm == Cross(Edge(tri[2], tri[1]), Edge(tri[3], tri[1]))
        cy == DivInt(tri[1][2] + tri[2][2] + tri[3][2], 64)
        cz == DivInt(tri[1][3] + tri[2][3] + tri[3][3], 64)
    IN  Mul(nrm[2], cy) + Mul(nrm[3], cz)

\* C20: in the fallback mesh the two triangles of every quad have the same
\* orientation and are wound outward: their normals point away from the
\* horn axis.
C20_FallbackWoundOutward ==
    FallbackBuilt =>
        \A t \in 0..(Len(hornGeometry.indices) \div 3 - 1) :
            RadialNormal(MeshTriangle(t)) > 0

\* every triangle of the fallback mesh is wound inward
FallbackWoundInward ==
    FallbackBuilt =>
        \A t \in 0..(Len(hornGeometry.indices) \div 3 - 1) :
            RadialNormal(MeshTriangle(t)) < 0

\* every index of the index array is a vertex of the vertex array, and the
\* index array holds whole triangles
IndicesWithinVertices ==
    /\ Len(hornGeometry.indices) % 3 = 0
    /\ \A k \in 1..Len(hornGeometry.indices) :
          /\ hornGeometry.indices[k] >= 0
          /\ hornGeometry.indices[k] < VertexCount

\* the indices a step appends lie in [offset, offset + nodeCount): offset
\* is the vertex count before the step, nodeCount the number of vertices
\* the step appends
FaceIndicesWithinFace ==
    LET offset == VertexCount
        nodeCount == Len(hornGeometry'.vertices) \div 3 - offset
    IN  \A k \in (Len(hornGeometry.indices) + 1)..Len(hornGeometry'.indices) :
            /\ hornGeometry'.indices[k] >= offset
            /\ hornGeometry'.indices[k] < offset + nodeCount

\* C16: in the mesh extractor, when every triangle of a face references
\* nodes of that face, after any sequence of faces every index is < the
\* vertex count, the index array length is a multiple of 3, and the
\* indices of a face lie in [offset, offset + nodeCount).
C16_ExtractorIndices ==
    /\ [](lastEvent.handler = "renderShape" => IndicesWithinVertices)
    /\ [][lastEvent'.handler = "renderShape" => FaceIndicesWithinFace]_vars

C16_Witness ==
    /\ lastEvent.handler = "renderShape"
    /\ hornGeometry.faces = 2
    /\ VertexCount = 4
    /\ hornGeometry.indices = <<0, 0, 0, 3, 1, 2>>

\* the kernel export route failed in the writer, in the read or in the
\* delivery step
KernelExportFailed ==
    /\ lastEvent.handler = "download"
    /\ exported.route = "kernel"
    /\ exported.result \in {"write", "read", "deliver"}

\* C17: when the kernel export route fails, the failure is shown to the
\* user, the text route is not attempted instead, and no file is
\* delivered.
C17_KernelExportFailureSurfaced ==
    KernelExportFailed =>
        /\ lastEvent.alert = "Error exporting STL. Please try again."
        /\ ~exported.fellBack
        /\ ~exported.delivered

C17_Witness ==
    /\ KernelExportFailed
    /\ exported.result = "read"
    /\ hornMeshes # << >>
    /\ lastEvent.alert = "Error exporting STL. Please try again."

\* C19: for valid parameters and both profile kinds the radii are
\* non-decreasing along the sequence of samples.
C19_RadiiNonDecreasing ==
    (ProfileCalculated /\ ValidParameters) =>
        \A k \in 1..(Len(profilePoints) - 1) :
            profilePoints[k].r <= profilePoints[k + 1].r

\* reading a decimal back -------------------------------------------------
DigitValue(char) == CHOOSE d \in 0..9 : DigitChar[d + 1] = char

RECURSIVE IntegerValue(_, _, _)
IntegerValue(word, k, acc) ==
    IF k > Len(word) THEN acc
    ELSE IntegerValue(word, k + 1, 10 * acc + DigitValue(word[k]))

RECURSIVE Binary(_, _, _, _)
\* n / p in units of 1 / Scale, rounded to the nearest (ties to even)
Binary(n, p, weight, acc) ==
    IF weight = Scale
    THEN acc + (IF 2 * n > p \/ (2 * n = p /\ acc % 2 = 1) THEN 1 ELSE 0)
    ELSE Binary((2 * n) % p, p, 2 * weight, 2 * acc + (2 * n) \div p)

ParseNumber(word) ==
    LET negative == word[1] = "-"
        body == IF negative THEN Tail(word) ELSE word
        dot == IF \E k \in 1..Len(body) : body[k] = "."
               THEN CHOOSE k \in 1..Len(body) : body[k] = "."
               ELSE Len(body) + 1
        fraction == SubSeq(body, dot + 1, Len(body))
        value == IntegerValue(SubSeq(body, 1, dot - 1), 1, 0) * Scale
                 + Binary(IntegerValue(fraction, 1, 0), 10 ^ Len(fraction), 1, 0)
    IN  IF negative THEN -value ELSE value

\* the vertices the vertex lines of the text give, in the order of the lines
ParsedVertices ==
    LET IsVertexLine(line) == line[1] = <<"vertex">>
        lines == SelectSeq(stlString, IsVertexLine)
    IN  [k \in 1..Len(lines) |->
            <<ParseNumber(lines[k][2]), ParseNumber(lines[k][3]),
              ParseNumber(lines[k][4])>>]

Serialized == lastEvent.handler = "downloadSTLThreeJS"

\* C18: the vertex lines of the text downloadSTLThreeJS builds for an
\* indexed mesh of T triangles read back as exactly T triangles, and the
\* three vertices of each are, in order, the mesh vertices its index triple
\* names.
C18_SerializerRoundTrip ==
    Serialized =>
        /\ Len(ParsedVertices) = Len(hornGeometry.indices)
        /\ \A t \in 0..(Len(hornGeometry.indices) \div 3 - 1) :
              <<ParsedVertices[3 * t + 1], ParsedVertices[3 * t + 2],
                ParsedVertices[3 * t + 3]>> = MeshTriangle(t)

C18_Witness ==
    /\ Serialized
    /\ Len(hornGeometry.indices) = 6
    /\ Len(stlString) = 16
    /\ \E k \in 1..Len(stlString) :
          /\ stlString[k][1] = <<"vertex">>
          /\ stlString[k][3][1] = "-"
          /\ Len(stlString[k][4]) > 5

\* the indices the step to the next state appended to the index array
AppendedIndices ==
    SubSeq(hornGeometry'.indices, Len(hornGeometry.indices) + 1,
           Len(hornGeometry'.indices))

\* C21: the mesh extractor emits the triangle (n1, n2, n3) of a face with
\* index offset o as (n1-1+o, n3-1+o, n2-1+o) when the face is REVERSED and
\* as (n1-1+o, n2-1+o, n3-1+o) otherwise; the indices emitted for the
\* faces before it stay as they are.
C21_ReversedFacesSwapped ==
    [][lastEvent'.handler = "renderShape" =>
        LET o == Len(hornGeometry.vertices) \div 3
            triangles == explorerFace'.triangles
        IN  /\ Len(AppendedIndices) = 3 * Len(triangles)
            /\ \A i \in 1..Len(triangles) :
                  LET n1 == triangles[i][1]
                      n2 == triangles[i][2]
                      n3 == triangles[i][3]
                  IN  SubSeq(AppendedIndices, 3 * i - 2, 3 * i)
                        = IF explorerFace'.reversed
                          THEN <<n1 - 1 + o, n3 - 1 + o, n2 - 1 + o>>
                          ELSE <<n1 - 1 + o, n2 - 1 + o, n3 - 1 + o>>
            /\ SubSeq(hornGeometry'.indices, 1, Len(hornGeometry.indices))
                  = hornGeometry.indices]_vars

C21_Witness ==
    /\ lastEvent.handler = "renderShape"
    /\ explorerFace.reversed
    /\ explorerFace.triangles = <<<<1, 2, 3>>>>
    /\ hornGeometry.indices = <<0, 1, 2, 3, 5, 4>>

\* C22: a face whose triangulation is null adds no vertex and no index
\* and leaves the index offset of the faces after it as it was, and the
\* loop goes on with the next face.
C22_NullFaceSkipped ==
    [][(lastEvent'.handler = "renderShape" /\ explorerFace'.isNull) =>
        /\ hornGeometry'.vertices = hornGeometry.vertices
        /\ hornGeometry'.indices = hornGeometry.indices
        /\ Len(hornGeometry'.vertices) \div 3 = Len(hornGeometry.vertices) \div 3
        /\ hornGeometry'.faces = hornGeometry.faces + 1]_vars

\* a null face was visited after a reversed face with a triangle
C22_Witness ==
    /\ lastEvent.handler = "renderShape"
    /\ explorerFace.isNull
    /\ hornGeometry.faces = 2
    /\ hornGeometry.indices = <<0, 2, 1>>
    /\ VertexCount = 3

\* C23: createHornShape checks each stage before the next one starts: when
\* the wire is not done it calls neither the face nor the revolution,
\* when the face is not done it does not call the revolution; whenever it
\* fails (a stage not done, or an exception) no shape is returned and
\* generateHorn leaves currentShape as it was.
C23_StagesChecked ==
    [][(genCount' # genCount /\ lastEvent'.solidBuilder \notin {"ok", "notCalled"}) =>
        /\ lastEvent'.solidBuilder = "wire" => lastEvent'.kernelStages = <<"wire">>
        /\ lastEvent'.solidBuilder = "face"
              => lastEvent'.kernelStages = <<"wire", "face">>
        /\ lastEvent'.solidBuilder \in {"wire", "face", "revolve", "exception"}
        /\ currentShape' = currentShape]_vars

\* the face was not done while an earlier horn's shape is kept
C23_Witness ==
    /\ lastEvent.solidBuilder = "face"
    /\ lastEvent.kernelStages = <<"wire", "face">>
    /\ genCount = 2
    /\ currentShape = 1

\* C25: while autoCalculateLength is checked, the length a generate action
\* uses is the length updateCalculatedLength gives for the current values
\* of targetFrequency, throatDiameter and mouthDiameter.
C25_AutoLengthUsed ==
    [][(genCount' # genCount /\ autoCalculateLength) =>
          hornLengthInput = calculatedLength(targetFrequencyInput, throatDiameterInput,
                                             mouthDiameterInput)]_vars

\* the end points of the edges of the wire other than end point `end` of
\* edge k that lie where it lies
Coincident(k, end) ==
    { other \in (1..Len(wireEdges)) \X {1, 2} :
        /\ other[1] # k
        /\ wireEdges[other[1]][other[2]] = wireEdges[k][end] }

\* C24: for a profile of n >= 2 samples the wire of createHornShape is
\* made of the n - 1 edges between consecutive samples, a mouth-closing
\* edge, an axis edge and a throat-closing edge; every end point of an
\* edge lies on the end point of exactly one other edge, and every edge
\* added shares an end point with the edge added before it.
C24_WireClosed ==
    (lastEvent.handler = "createHornShape" /\ Len(profilePoints) >= 2) =>
        LET n == Len(profilePoints)
            Sample(i) == <<profilePoints[i].x, profilePoints[i].r, 0>>
            OnAxis(i) == <<profilePoints[i].x, 0, 0>>
            Closing == {wireEdges[k] : k \in n..Len(wireEdges)}
        IN  /\ Len(wireEdges) = n + 2
            /\ \A i \in 1..(n - 1) : wireEdges[i] = <<Sample(i), Sample(i + 1)>>
            /\ Closing = { <<Sample(1), OnAxis(1)>>, <<OnAxis(1), OnAxis(n)>>,
                           <<OnAxis(n), Sample(n)>> }
            /\ \A k \in 1..Len(wireEdges), end \in {1, 2} :
                  Cardinality(Coincident(k, end)) = 1
            /\ \A k \in 2..Len(wireEdges) :
                  \E end \in {1, 2}, before \in {1, 2} :
                      wireEdges[k][end] = wireEdges[k - 1][before]

C24_Witness ==
    /\ lastEvent.handler = "createHornShape"
    /\ Len(profilePoints) = 4
    /\ Len(wireEdges) = 6
    /\ wireEdges[4][2] = wireEdges[3][2]
    /\ wireEdges[6][1] = wireEdges[1][1]

RECURSIVE RiemannSum(_, _)
\* the sum over i = lo..hi of pi * r(x_i)^2 * (length / steps), where r(x_i)
\* is the radius of sample i of the exponential profile of `steps` segments
RiemannSum(lo, hi) ==
    IF lo > hi THEN 0
    ELSE IF lo = hi
    THEN LET r == ExponentialPoint(ThroatRadius, MouthRadius, HornLength, steps, lo).r
         IN  MulWide(MulWide(ToWide(Mul(MathPI, r)), ToWide(r)),
                     ToWide(Div(HornLength, Num(steps))))
    ELSE RiemannSum(lo, (lo + hi) \div 2) + RiemannSum((lo + hi) \div 2 + 1, hi)

InfoShown == lastEvent.handler = "updateInfoPanel"

\* C26: the metrics shown do not depend on the selected horn type (the
\* panel is what updateInfoPanel writes for either type with the other
\* parameters the same), the volume is the 100-step left Riemann sum of
\* pi * r(x)^2 with the exponential radius, and updateInfoPanel changes
\* neither the profile samples nor currentShape.
C26_MetricsIndependentOfType ==
    /\ [](InfoShown =>
            /\ \A type \in HornTypes :
                  infoPanel = updateInfoPanel(type, ThroatRadius, MouthRadius,
                                              HornLength, targetFrequencyInput)
            /\ infoPanel.volume = DivInt(RiemannSum(0, 99), 100 * Wide))
    /\ [][lastEvent'.handler = "updateInfoPanel" =>
            /\ profilePoints' = profilePoints
            /\ currentShape' = currentShape]_vars

C26_Witness ==
    /\ InfoShown
    /\ hornTypeInput = "tractrix"
    /\ throatDiameterInput = 20
    /\ hornLengthInput = 100
    /\ infoPanel.cutoffFreq = 8575
    /\ infoPanel.volume > 0
    /\ Len(profilePoints) = 3

\* C27: the text for a mesh of T triangles starts with the line
\* 'solid horn' and ends with the line 'endsolid horn'; between them are
\* exactly T blocks, in the order of the index array, each made of a
\* 'facet normal' line, 'outer loop', three 'vertex' lines of three
\* coordinates, 'endloop' and 'endfacet'.
C27_TextStructure ==
    Serialized =>
        LET T == Len(hornGeometry.indices) \div 3
            Line(t, k) == stlString[7 * t + 1 + k]
        IN  /\ Len(stlString) = 7 * T + 2
            /\ stlString[1] = << <<"solid">>, <<"horn">> >>
            /\ stlString[Len(stlString)] = << <<"endsolid">>, <<"horn">> >>
            /\ \A t \in 0..(T - 1) :
                  /\ Len(Line(t, 1)) = 5
                  /\ SubSeq(Line(t, 1), 1, 2) = << <<"facet">>, <<"normal">> >>
                  /\ Line(t, 2) = << <<"outer">>, <<"loop">> >>
                  /\ \A k \in 1..3 :
                        /\ Len(Line(t, 2 + k)) = 4
                        /\ Line(t, 2 + k)[1] = <<"vertex">>
                        /\ <<ParseNumber(Line(t, 2 + k)[2]),
                              ParseNumber(Line(t, 2 + k)[3]),
                              ParseNumber(Line(t, 2 + k)[4])>> = MeshTriangle(t)[k]
                  /\ Line(t, 6) = << <<"endloop">> >>
                  /\ Line(t, 7) = << <<"endfacet">> >>

C27_Witness ==
    /\ Serialized
    /\ hornGeometry.indices = <<2, 1, 0, 1, 1, 2>>
    /\ Len(stlString) = 16
    /\ stlString[9][1] = <<"facet">>
    /\ stlString[16] = << <<"endsolid">>, <<"horn">> >>

\* C28: after any sequence of generate actions the scene holds at most one
\* object named 'horn'.
C28_AtMostOneHorn == Len(hornMeshes) <= 1

\* a fallback mesh replaced the mesh of a kernel shape
C28_Witness ==
    /\ genCount = 3
    /\ currentShape = 2
    /\ hornMeshes = <<[horn |-> 3, builder |-> "fallback"]>>

\* C29: downloadSTL takes the kernel route exactly when currentShape and
\* oc are both set, and the text route otherwise; on the text route with
\* no horn mesh in the scene it shows 'Please generate a horn first' and
\* delivers no file.
C29_ExportRoute ==
    lastEvent.handler = "download" =>
        /\ exported.route = "kernel" <=> (currentShape # 0 /\ oc)
        /\ exported.route = "text" <=> ~(currentShape # 0 /\ oc)
        /\ (exported.route = "text" /\ hornMeshes = << >>) =>
              /\ lastEvent.alert = "Please generate a horn first"
              /\ ~exported.delivered

C29_Witness ==
    /\ lastEvent.handler = "download"
    /\ exported.route = "text"
    /\ hornMeshes = << >>
    /\ genCount > 0
    /\ lastEvent.alert = "Please generate a horn first"

\* C30: for a horn type other than 'exponential' and 'tractrix'
\* calculateHornProfile returns an empty sequence of samples, and no error
\* is raised, whatever the other parameters are.
C30_UnknownTypeEmpty ==
    (ProfileCalculated /\ hornTypeInput \notin {"exponential", "tractrix"}) =>
        /\ profilePoints = << >>
        /\ lastEvent.samples = 0
        /\ lastEvent.alert = "none"

C30_Witness ==
    /\ ProfileCalculated
    /\ hornTypeInput = "conical"
    /\ throatDiameterInput = 60
    /\ segmentsInput = 4
    /\ profilePoints = << >>
====
